---- MODULE Spec2Model ----
(***************************************************************************)
(* Model of the layered scan pipeline of mcp-port-scanner:                 *)
(*   - PortScanner.scan_target and its helpers        (scanner.py)         *)
(*   - HTTPDetector.detect_http_services              (http_detector.py)   *)
(*   - WebProber.probe_web_services                   (web_prober.py)      *)
(*   - ScanService.scan_async_with_progress           (service.py)         *)
(*   - ScanResult.mark_completed / mark_failed        (models.py)          *)
(*   - the scan drivers execute_scan, execute_batch_scan (mcp_server.py),  *)
(*     execute_scan_task (http_sse_server.py) and                          *)
(*     CursorSSEAdapter._execute_scan (cursor_sse_adapter.py)              *)
(*                                                                         *)
(* Port numbers are scaled: 1..MaxPort stands for 1..65535, 1..RangeHi for *)
(* the helper's default range "1-1000", RangeHi+1 for the extra            *)
(* preset_ports, and MaxPort lies outside every preset.                    *)
(***************************************************************************)
EXTENDS Integers, Sequences, FiniteSets, TLC

\* ------------------------------------------------------------------ bounds
MaxPort == 4
RangeHi == 2
MaxOpen == 2
\* targets of one batch, and the largest max_concurrent tried
MaxTargets == 3
MaxConcurrent == 2
\* open ports handed to one banner phase
MaxBannerPorts == 22

\* ------------------------------------------------------- scaled port tables
Ports == 1..MaxPort
\* ScanConfig.rustscan_ports = "1-1000"
rustscan_ports == 1..RangeHi
\* ScanConfig.preset_ports: the sparse extras above the dense range
preset_ports == {RangeHi + 1}
\* list(range(1, 65536)) of _execute_full_port_scan
full_range == 1..MaxPort
\* the ports _get_banner nudges with "GET / HTTP/1.1" ([80, 8080, 8000, ...])
nudge_ports == {RangeHi, RangeHi + 1}
\* ScanConfig.web_ports ([80, 443, 8080, 8443, 3000, ..., 8000, ...])
web_ports == {RangeHi, RangeHi + 1}
\* port_hints of the detection rules that carry hints; a port is worth 0.1
\* for every rule that lists it (80 is listed by two rules, 8000 by one)
StandardHints == {RangeHi}
ProxyHints == {RangeHi}
NonStandardHints == {RangeHi + 1}

\* ------------------------------------------------------------ value helpers
\* Optional[T]: None is the empty sequence, a value v is <<v>>
NoneV == <<>>
Some(v) == <<v>>

Range(s) == {s[i] : i \in DOMAIN s}

Min(S) == CHOOSE x \in S : \A y \in S : x <= y

RECURSIVE SortedSeq(_)
\* sorted(list(set(...))): the elements of S in ascending order
SortedSeq(S) == IF S = {} THEN <<>> ELSE <<Min(S)>> \o SortedSeq(S \ {Min(S)})

RECURSIVE Filter(_, _)
\* [x for x in s if x in S], order kept, duplicates kept
Filter(s, S) ==
    IF s = <<>> THEN <<>>
    ELSE (IF Head(s) \in S THEN <<Head(s)>> ELSE <<>>) \o Filter(Tail(s), S)

\* every order in which the tasks of a list of n entries can complete
Orders(n) == {f \in [1..n -> 1..n] : \A i, j \in 1..n : i # j => f[i] # f[j]}

Permute(s, f) == [i \in 1..Len(s) |-> s[f[i]]]

IsSortedByPort(s) == \A i, j \in 1..Len(s) : i < j => s[i].port <= s[j].port
IsUniqueByPort(s) == \A i, j \in 1..Len(s) : i # j => s[i].port # s[j].port
PortsOf(s) == {s[i].port : i \in 1..Len(s)}

\* ------------------------------------------------------------------- state
VARIABLES
    driver,         \* which entry point runs the scan
    target,         \* ScanTarget: [given |-> ports is not None, ports |-> list]
    layers,         \* the requested subset of the three layers
    config,         \* ScanConfig (the fields the pipeline reads)
    callback,       \* "none" or "given": the progress_callback argument
    openOnTarget,   \* environment: the ports open on the target
    httpOnTarget,   \* environment: the open ports that speak HTTP
    now,            \* wall clock
    pc,             \* position of ScanService.scan_async_with_progress
    result,         \* the ScanResult built by scan_async_with_progress
    t0,             \* its local start_time = time.time()
    full_ports,     \* local of _execute_full_port_scan
    dpc,            \* position of the driver
    scan_result,    \* the ScanResult registered by the driver (active_scans)
    hist,           \* history: the sweeps and layer calls made so far
    batch,          \* a batch scan: its tasks, semaphore and results
    banners,        \* the banner phase of one sweep: its tasks
    active_scans,   \* ScanService.active_scans: scan_id -> ScanResult
    result_cache,   \* ScanService.result_cache: scan_id -> ScanResult
    probe,          \* one directory request of the web prober
    stream,         \* one call of ScanService.scan_stream
    grab,           \* one call of PortScanner._grab_banners
    mcp,            \* the MCP server: its shared components and scans
    sse             \* one SSE stream of the HTTP/SSE server

vars == <<driver, target, layers, config, callback, openOnTarget, httpOnTarget,
          now, pc, result, t0, full_ports, dpc, scan_result, hist, batch, banners,
          active_scans, result_cache, probe, stream, grab, mcp, sse>>

\* the service's registries
registries == <<active_scans, result_cache>>

\* the state of the batch scan, of the banner phase and of the other
\* sub-systems, which the single-scan pipeline leaves alone
phases == <<batch, banners, registries, probe, stream, grab, mcp, sse>>

\* the state of the single-scan pipeline and of its drivers
pipeline == <<now, pc, result, t0, full_ports, dpc, scan_result, hist>>

inputs == <<driver, target, layers, config, callback, openOnTarget, httpOnTarget>>

\* ------------------------------------------------- scanner.py: PortScanner
\* Python truthiness of target.ports: None and [] are both false
Truthy(t) == t.given /\ t.ports # <<>>

\* what one run of the external helper can do
HelperOutcomes == {"ok", "nonzero", "unparseable", "absent"}

\* the ports the helper is asked to sweep: -p <list> or -r <rustscan_ports>
HelperCandidates(t) == IF Truthy(t) THEN t.ports ELSE SortedSeq(rustscan_ports)

\* the bracketed list of the helper's greppable line "<ip> -> [p1,p2,...]"
HelperStdout(t) == Filter(HelperCandidates(t), openOnTarget)

_parse_rustscan_greppable_output(out) == SortedSeq(Range(out))

_get_preset_ports == SortedSeq(rustscan_ports \cup preset_ports)

SocketCandidates(t) == IF Truthy(t) THEN t.ports ELSE _get_preset_ports

\* mutant: the connect scan always walks the preset list
_socket_scan_ports_Preset(t) == Filter(_get_preset_ports, openOnTarget)

\* a port is reported iff its connect succeeded, in the order of ports_to_scan
_socket_scan_ports(t) == Filter(SocketCandidates(t), openOnTarget)

_rustscan_ports(t, helper) ==
    CASE helper = "ok" -> _parse_rustscan_greppable_output(HelperStdout(t))
      [] helper = "nonzero" -> <<>>
      [] helper = "unparseable" -> _parse_rustscan_greppable_output(<<>>)
      [] helper = "absent" -> _socket_scan_ports(t)

\* the candidate ports a sweep really probed
SweptPorts(t, helper) ==
    IF helper = "absent" THEN Range(SocketCandidates(t)) ELSE Range(HelperCandidates(t))

\* the banner _get_banner reads: an HTTP server stays silent until it is
\* nudged, and only the nudge ports are nudged; any other service greets
_get_banner(p) ==
    IF p \in httpOnTarget
    THEN (IF p \in nudge_ports THEN "http" ELSE "none")
    ELSE "other"

_identify_by_port(p) ==
    IF p = RangeHi THEN [name |-> "http"] ELSE [name |-> "unknown"]

_identify_service(p, banner) ==
    IF banner = "http" THEN [name |-> "http"] ELSE _identify_by_port(p)

\* dict.get(key, default)
DictGet(d, k, default) == IF k \in DOMAIN d THEN d[k] ELSE default

\* service = service_info.get("service", "unknown") on the dict of
\* _identify_service, whose key is "name"
_grab_single_banner(p) ==
    [port |-> p, state |-> "open",
     service |-> DictGet(_identify_service(p, _get_banner(p)), "service", "unknown"),
     banner |-> _get_banner(p)]

\* results are appended in completion order f (asyncio.as_completed)
_grab_banners(ports, f) == Permute([i \in 1..Len(ports) |-> _grab_single_banner(ports[i])], f)

\* scan_target: no open port -> [], else the banner phase
scan_target(t, helper, f) ==
    IF _rustscan_ports(t, helper) = <<>> THEN <<>>
    ELSE _grab_banners(_rustscan_ports(t, helper), f)

BannerOrders(t, helper) == Orders(Len(_rustscan_ports(t, helper)))

\* ------------------------------------------- http_detector.py: HTTPDetector
\* scores are in tenths; a rule is its port_hints, its confidence_boost and
\* the banners its banner_patterns match
detection_rules == <<
    [name |-> "Standard HTTP Response", hints |-> StandardHints, boost |-> 3, matches |-> {"http"}],
    [name |-> "Reverse Proxy", hints |-> ProxyHints, boost |-> 2, matches |-> {}],
    [name |-> "Non-Standard HTTP Ports", hints |-> NonStandardHints, boost |-> 4, matches |-> {"http"}] >>

_apply_detection_rule(pi, rule) ==
    (IF pi.port \in rule.hints THEN 1 ELSE 0)
    + (IF pi.banner # "none" /\ pi.banner \in rule.matches THEN rule.boost ELSE 0)

RECURSIVE RuleScore(_, _)
RuleScore(pi, rules) ==
    IF rules = <<>> THEN 0
    ELSE _apply_detection_rule(pi, Head(rules)) + RuleScore(pi, Tail(rules))

ConfidenceScore(pi) ==
    (IF pi.service \in {"http", "https", "http-alt", "https-alt"} THEN 5 ELSE 0)
    + RuleScore(pi, detection_rules)

CandidateThreshold == 3

RECURSIVE _identify_http_candidates(_)
_identify_http_candidates(port_infos) ==
    IF port_infos = <<>> THEN <<>>
    ELSE (IF ConfidenceScore(Head(port_infos)) >= CandidateThreshold
          THEN <<Head(port_infos)>> ELSE <<>>)
         \o _identify_http_candidates(Tail(port_infos))

RECURSIVE _verify_http_services(_)
\* gather keeps the candidates' order; a probe yields an HTTPInfo iff the
\* port answers HTTP
_verify_http_services(cands) ==
    IF cands = <<>> THEN <<>>
    ELSE (IF Head(cands).port \in httpOnTarget THEN <<[port |-> Head(cands).port]>> ELSE <<>>)
         \o _verify_http_services(Tail(cands))

\* mutant: every port of the target that speaks HTTP is probed, discovered
\* or not
detect_http_services_AllHttp(port_infos) ==
    _verify_http_services([i \in 1..Cardinality(httpOnTarget) |->
                              [port |-> SortedSeq(httpOnTarget)[i]]])

detect_http_services(port_infos) ==
    IF _identify_http_candidates(port_infos) = <<>> THEN <<>>
    ELSE _verify_http_services(_identify_http_candidates(port_infos))

\* ------------------------------------------------ web_prober.py: WebProber
RECURSIVE DirectoriesOf(_, _)
\* one kept directory for every service in `found`, in the services' order
DirectoriesOf(http_services, found) ==
    IF http_services = <<>> THEN <<>>
    ELSE (IF Head(http_services).port \in found
          THEN <<[port |-> Head(http_services).port, path |-> "/admin"]>> ELSE <<>>)
         \o DirectoriesOf(Tail(http_services), found)

probe_web_services(cfg, http_services, found) ==
    IF ~cfg.admin_scan_enabled THEN <<>>
    ELSE DirectoriesOf(http_services, found)


\* ------------------------------------------------------ models.py: ScanResult
ScanResult(status, t) ==
    [status |-> status, start_time |-> t, end_time |-> NoneV,
     scan_duration |-> NoneV, error_message |-> NoneV,
     open_ports |-> <<>>, http_services |-> <<>>, admin_directories |-> <<>>]

\* mutant: the duration is left unset (the `if self.start_time` guard fails)
mark_completed_NoDuration(r, t) ==
    [r EXCEPT !.status = "completed", !.end_time = Some(t)]

mark_completed(r, t) ==
    [r EXCEPT !.status = "completed", !.end_time = Some(t),
              !.scan_duration = Some(t - r.start_time)]

mark_failed(r, t, error) ==
    [r EXCEPT !.status = "failed", !.end_time = Some(t),
              !.error_message = Some(error),
              !.scan_duration = Some(t - r.start_time)]

RECURSIVE add_all(_, _)
\* for x in xs: lst.append(x)
add_all(lst, xs) == IF xs = <<>> THEN lst ELSE add_all(Append(lst, Head(xs)), Tail(xs))

\* ------------------------------------------------------------------ inputs
AllLayers == {"port_scan", "http_detection", "web_probe"}

\* explicit port lists: every list of at most two entries over an in-range
\* and an out-of-preset port (empty, sorted, unsorted, with a duplicate)
ListPorts == {1, MaxPort}
ExplicitLists ==
    {<<>>} \cup {<<p>> : p \in ListPorts} \cup {<<p, q>> : p \in ListPorts, q \in ListPorts}

Targets ==
    {[given |-> FALSE, ports |-> <<>>]} \cup {[given |-> TRUE, ports |-> l] : l \in ExplicitLists}

\* smart_scan_threshold values tried (the default is 3)
Thresholds == {1, 2}

Configs ==
    [smart_scan_enabled : BOOLEAN, smart_scan_threshold : Thresholds,
     admin_scan_enabled : BOOLEAN]

Environments ==
    {e \in [open : SUBSET Ports, http : SUBSET Ports] :
        Cardinality(e.open) <= MaxOpen /\ e.http \subseteq e.open}

\* history entries
SweepEvent(full, t, helper, ret) ==
    [ev |-> "sweep", full |-> full, cand |-> SweptPorts(t, helper),
     helper |-> helper, ret |-> ret]
LayerEvent(name, ret) ==
    [ev |-> name, full |-> FALSE, cand |-> {}, helper |-> "-", ret |-> ret]

\* ------------------------------- service.py: ScanService.scan_async_with_progress
R == result[1]

\* mutant: the smart decision is taken whatever the caller's ports
NoPortsGiven_Always(t) == TRUE

\* `if not ports:` of the smart decision
NoPortsGiven(t) == ~Truthy(t)

\* `len(port_infos) < self.config.smart_scan_threshold`
BelowThreshold(port_infos) == Len(port_infos) < config.smart_scan_threshold

\* ScanTarget(ip=target.ip, ports=list(range(1, 65536)))
full_scan_target == [given |-> TRUE, ports |-> SortedSeq(full_range)]

\* mutant: HTTP detection is not gated on open_ports
RunsHttpDetection_Ungated == "http_detection" \in layers

RunsHttpDetection == "http_detection" \in layers /\ R.open_ports # <<>>
RunsWebProbe == "web_probe" \in layers /\ R.http_services # <<>>

\* the positions at which the code awaits progress_callback
AtCallback ==
    \/ pc = "port_scan" /\ "port_scan" \in layers
    \/ pc = "decision" /\ NoPortsGiven(target)
    \/ pc \in {"full_scan", "full_return"}
    \/ pc = "http_detection" /\ RunsHttpDetection
    \/ pc = "web_probe" /\ RunsWebProbe

\* lines 139-157: the ScanResult is built with empty lists, status pending
ScanStart ==
    /\ pc = "idle"
    /\ driver = "service" \/ dpc = "calling"
    /\ result' = <<ScanResult("pending", now)>>
    /\ t0' = now
    /\ pc' = "port_scan"
    /\ UNCHANGED <<inputs, phases, now, full_ports, dpc, scan_result, hist>>

\* lines 160-169: the first sweep, on the caller's target
PortScan ==
    /\ pc = "port_scan"
    /\ IF "port_scan" \in layers
       THEN \E helper \in HelperOutcomes : \E f \in BannerOrders(target, helper) :
              /\ result' = <<[R EXCEPT !.open_ports = scan_target(target, helper, f)]>>
              /\ hist' = Append(hist, SweepEvent(FALSE, target, helper,
                                                 scan_target(target, helper, f)))
              /\ now' = now + 1
              /\ pc' = "decision"
       ELSE /\ pc' = "http_detection"
            /\ UNCHANGED <<result, hist, now>>
    /\ UNCHANGED <<inputs, phases, t0, full_ports, dpc, scan_result>>

\* lines 171-186: the smart decision
SmartDecision ==
    /\ pc = "decision"
    /\ pc' = IF NoPortsGiven(target) /\ BelowThreshold(R.open_ports)
             THEN "full_scan" ELSE "http_detection"
    /\ UNCHANGED <<inputs, phases, now, result, t0, full_ports, dpc, scan_result, hist>>

\* lines 542-557: _execute_full_port_scan up to the sweep's return
FullPortScan ==
    /\ pc = "full_scan"
    /\ \E helper \in HelperOutcomes : \E f \in BannerOrders(full_scan_target, helper) :
         /\ full_ports' = scan_target(full_scan_target, helper, f)
         /\ hist' = Append(hist, SweepEvent(TRUE, full_scan_target, helper,
                                            scan_target(full_scan_target, helper, f)))
    /\ now' = now + 1
    /\ pc' = "full_return"
    /\ UNCHANGED <<inputs, phases, result, t0, dpc, scan_result>>

\* mutant: Layer 2 is entered without taking the sweep's list
FullPortScanReturn_NotTaken ==
    /\ pc = "full_return"
    /\ pc' = "http_detection"
    /\ UNCHANGED <<inputs, phases, now, result, t0, full_ports, dpc, scan_result, hist>>

\* lines 559-564 and 179-180: the sweep's list replaces open_ports
FullPortScanReturn ==
    /\ pc = "full_return"
    /\ result' = <<[R EXCEPT !.open_ports = full_ports]>>
    /\ pc' = "http_detection"
    /\ UNCHANGED <<inputs, phases, now, t0, full_ports, dpc, scan_result, hist>>

\* lines 188-197
HttpDetection ==
    /\ pc = "http_detection"
    /\ IF RunsHttpDetection
       THEN /\ result' = <<[R EXCEPT !.http_services = detect_http_services(R.open_ports)]>>
            /\ hist' = Append(hist, LayerEvent("http_detection", R.open_ports))
            /\ now' = now + 1
       ELSE UNCHANGED <<result, hist, now>>
    /\ pc' = "web_probe"
    /\ UNCHANGED <<inputs, phases, t0, full_ports, dpc, scan_result>>

\* lines 199-208
WebProbe ==
    /\ pc = "web_probe"
    /\ IF RunsWebProbe
       THEN \E found \in SUBSET PortsOf(R.http_services) :
              /\ result' = <<[R EXCEPT !.admin_directories =
                                         probe_web_services(config, R.http_services, found)]>>
              /\ hist' = Append(hist, LayerEvent("web_probe", R.http_services))
              /\ now' = now + 1
       ELSE UNCHANGED <<result, hist, now>>
    /\ pc' = "finish"
    /\ UNCHANGED <<inputs, phases, t0, full_ports, dpc, scan_result>>

\* lines 210-215: the normal return
ScanReturn ==
    /\ pc = "finish"
    /\ result' = <<[R EXCEPT !.scan_duration = Some(now - t0)]>>
    /\ pc' = "done"
    /\ UNCHANGED <<inputs, phases, now, t0, full_ports, dpc, scan_result, hist>>

\* an awaited progress_callback raises inside the try block
CallbackRaises ==
    /\ callback = "given"
    /\ AtCallback
    /\ pc' = "except"
    /\ hist' = Append(hist, LayerEvent("callback_raise", <<>>))
    /\ UNCHANGED <<inputs, phases, now, result, t0, full_ports, dpc, scan_result>>

\* an unhandled internal error escapes detect_http_services or
\* probe_web_services (scan_target catches its own)
LayerRaises ==
    /\ \/ pc = "http_detection" /\ RunsHttpDetection
       \/ pc = "web_probe" /\ RunsWebProbe
    /\ pc' = "except"
    /\ now' = now + 1
    /\ hist' = Append(hist, LayerEvent("raise", <<>>))
    /\ UNCHANGED <<inputs, phases, result, t0, full_ports, dpc, scan_result>>

\* lines 217-220: except Exception: log, set scan_duration, return result
ScanExcept ==
    /\ pc = "except"
    /\ result' = <<[R EXCEPT !.scan_duration = Some(now - t0)]>>
    /\ pc' = "done"
    /\ UNCHANGED <<inputs, phases, now, t0, full_ports, dpc, scan_result, hist>>

ServiceNext ==
    \/ ScanStart \/ PortScan \/ SmartDecision \/ FullPortScan \/ FullPortScanReturn
    \/ HttpDetection \/ WebProbe \/ ScanReturn \/ LayerRaises \/ ScanExcept

\* --------------------------------------------------------- specifications
\* ScanService.__init__ leaves both registries empty (lines 59, 63); the
\* sub-systems a specification does not run are at rest
RegistriesEmpty == active_scans = <<>> /\ result_cache = <<>>
OthersAtRest ==
    /\ RegistriesEmpty
    /\ probe = <<>> /\ stream = <<>> /\ grab = <<>> /\ mcp = <<>> /\ sse = <<>>

InitCommon ==
    /\ target \in Targets
    /\ layers \in SUBSET AllLayers
    /\ config \in Configs
    /\ \E e \in Environments : openOnTarget = e.open /\ httpOnTarget = e.http
    /\ now = 0
    /\ pc = "idle"
    /\ result = <<>>
    /\ t0 = 0
    /\ full_ports = <<>>
    /\ scan_result = <<>>
    /\ hist = <<>>
    /\ batch = <<>>
    /\ banners = <<>>
    /\ OthersAtRest

\* a caller of ScanService.scan_async_with_progress (scan_async passes no
\* callback)
Init ==
    /\ driver = "service"
    /\ callback \in {"none", "given"}
    /\ dpc = "-"
    /\ InitCommon

Next == ServiceNext \/ CallbackRaises

Spec == Init /\ [][Next]_vars

\* ------------------------------------------------------------- the drivers
SR == scan_result[1]

\* f"{x:.2f}" raises TypeError when x is None
FormatRaises(x) == x = NoneV

\* ScanConfig(): the defaults (execute_batch_scan passes a fresh one)
DefaultConfig ==
    [smart_scan_enabled |-> TRUE, smart_scan_threshold |-> 3, admin_scan_enabled |-> TRUE]

\* the config execute_scan runs under
McpConfig == IF driver = "mcp_batch" THEN DefaultConfig ELSE config

\* http_sse_server.start_scan, CursorSSEAdapter cursor_scan, mcp_server
\* handle_batch_scan register a pending ScanResult; handle_scan_target
\* registers it as running
InitialStatus(d) == IF d = "mcp" THEN "running" ELSE "pending"

\* the request handler: build the ScanResult, put it in active_scans,
\* schedule the background task
Register ==
    /\ dpc = "request"
    /\ scan_result' = <<ScanResult(InitialStatus(driver), now)>>
    /\ dpc' = "queued"
    /\ UNCHANGED <<inputs, phases, now, pc, result, t0, full_ports, hist>>

\* the background task gets to run, at once or later
\* execute_scan_task / _execute_scan: status = RUNNING, then the call of
\* service.scan_async
TaskBegin ==
    /\ dpc = "queued"
    /\ driver \in {"sse", "cursor"}
    /\ \E d \in {0, 1} : now' = now + d
    /\ scan_result' = <<[SR EXCEPT !.status = "running"]>>
    /\ dpc' = "calling"
    /\ UNCHANGED <<inputs, phases, pc, result, t0, full_ports, hist>>

\* the copy of the service's result into the registered one, then
\* status = COMPLETED, then the log line that formats result.scan_duration;
\* an exception there lands in `except`: FAILED, error_message, end_time
CopyResult(sr, r) ==
    [sr EXCEPT !.open_ports = r.open_ports, !.http_services = r.http_services,
               !.admin_directories = r.admin_directories,
               !.scan_duration = r.scan_duration, !.end_time = r.end_time,
               !.status = "completed"]

TaskExcept(sr, t) ==
    [sr EXCEPT !.status = "failed", !.error_message = Some("error"), !.end_time = Some(t)]

\* http_sse_server.execute_scan_task lines 397-403 and
\* CursorSSEAdapter._execute_scan lines 151-157, after scan_async returned
TaskCopy ==
    /\ driver \in {"sse", "cursor"}
    /\ dpc = "calling" /\ pc = "done"
    /\ scan_result' = <<CopyResult(SR, R)>>
    /\ dpc' = "log"
    /\ UNCHANGED <<inputs, phases, now, pc, result, t0, full_ports, hist>>

\* execute_scan_task line 405 formats result.scan_duration with :.2f;
\* _execute_scan line 159 formats len(result.open_ports), which cannot raise
LogRaises(d, r) == d = "sse" /\ FormatRaises(r.scan_duration)

\* the log line closing the try block, and the except branch behind it
TaskLog ==
    /\ driver \in {"sse", "cursor"}
    /\ dpc = "log"
    /\ scan_result' = <<IF LogRaises(driver, R) THEN TaskExcept(SR, now) ELSE SR>>
    /\ dpc' = "done"
    /\ UNCHANGED <<inputs, phases, now, pc, result, t0, full_ports, hist>>

\* mcp_server.execute_batch_scan.scan_with_semaphore: status = RUNNING;
\* handle_scan_target's task starts execute_scan directly
McpBegin ==
    /\ dpc = "queued"
    /\ driver \in {"mcp", "mcp_batch"}
    /\ \E d \in {0, 1} : now' = now + d
    /\ scan_result' = <<[SR EXCEPT !.status = "running"]>>
    /\ dpc' = "port_scan"
    /\ UNCHANGED <<inputs, phases, pc, result, t0, full_ports, hist>>

\* mcp_server.execute_scan, lines 385-394
execute_scan_port_scan ==
    /\ dpc = "port_scan"
    /\ IF "port_scan" \in layers
       THEN \E helper \in HelperOutcomes : \E f \in BannerOrders(target, helper) :
              /\ scan_result' = <<[SR EXCEPT !.open_ports =
                                     add_all(SR.open_ports, scan_target(target, helper, f))]>>
              /\ hist' = Append(hist, SweepEvent(FALSE, target, helper,
                                                 scan_target(target, helper, f)))
              /\ now' = now + 1
       ELSE UNCHANGED <<scan_result, hist, now>>
    /\ dpc' = "http_detection"
    /\ UNCHANGED <<inputs, phases, pc, result, t0, full_ports>>

McpRunsHttpDetection == "http_detection" \in layers /\ SR.open_ports # <<>>
McpRunsWebProbe == "web_probe" \in layers /\ SR.http_services # <<>>

\* lines 396-407
execute_scan_http_detection ==
    /\ dpc = "http_detection"
    /\ IF McpRunsHttpDetection
       THEN /\ scan_result' = <<[SR EXCEPT !.http_services =
                                   add_all(SR.http_services, detect_http_services(SR.open_ports))]>>
            /\ hist' = Append(hist, LayerEvent("http_detection", SR.open_ports))
            /\ now' = now + 1
       ELSE UNCHANGED <<scan_result, hist, now>>
    /\ dpc' = "web_probe"
    /\ UNCHANGED <<inputs, phases, pc, result, t0, full_ports>>

\* lines 409-417
execute_scan_web_probe ==
    /\ dpc = "web_probe"
    /\ IF McpRunsWebProbe
       THEN \E found \in SUBSET PortsOf(SR.http_services) :
              /\ scan_result' = <<[SR EXCEPT !.admin_directories =
                                     add_all(SR.admin_directories,
                                             probe_web_services(McpConfig, SR.http_services, found))]>>
              /\ hist' = Append(hist, LayerEvent("web_probe", SR.http_services))
              /\ now' = now + 1
       ELSE UNCHANGED <<scan_result, hist, now>>
    /\ dpc' = "complete"
    /\ UNCHANGED <<inputs, phases, pc, result, t0, full_ports>>

\* line 420: scan_result.mark_completed()
execute_scan_completed ==
    /\ dpc = "complete"
    /\ scan_result' = <<mark_completed(SR, now)>>
    /\ dpc' = "log"
    /\ UNCHANGED <<inputs, phases, now, pc, result, t0, full_ports, hist>>

\* line 421: the log line formats scan_result.scan_duration with :.2f; an
\* exception there lands in line 425, mark_failed(str(e))
execute_scan_log ==
    /\ driver \in {"mcp", "mcp_batch"}
    /\ dpc = "log"
    /\ scan_result' = <<IF FormatRaises(SR.scan_duration)
                        THEN mark_failed(SR, now, "error") ELSE SR>>
    /\ dpc' = "done"
    /\ UNCHANGED <<inputs, phases, now, pc, result, t0, full_ports, hist>>

\* lines 423-425: a layer raised; mark_failed(str(e))
execute_scan_failed ==
    /\ \/ dpc = "http_detection" /\ McpRunsHttpDetection
       \/ dpc = "web_probe" /\ McpRunsWebProbe
    /\ now' = now + 1
    /\ scan_result' = <<mark_failed(SR, now + 1, "error")>>
    /\ hist' = Append(hist, LayerEvent("raise", <<>>))
    /\ dpc' = "done"
    /\ UNCHANGED <<inputs, phases, pc, result, t0, full_ports>>

Drivers == {"sse", "cursor", "mcp", "mcp_batch"}

\* the requests sent to the drivers: no ports, or an unsorted explicit list
DriverTargets == {t \in Targets : ~t.given \/ t.ports = <<MaxPort, 1>>}

InitDrivers ==
    /\ driver \in Drivers
    /\ callback = "none"
    /\ dpc = "request"
    /\ InitCommon
    /\ target \in DriverTargets

NextDrivers ==
    \/ ServiceNext
    \/ Register \/ TaskBegin \/ TaskCopy \/ TaskLog
    \/ McpBegin \/ execute_scan_port_scan \/ execute_scan_http_detection
    \/ execute_scan_web_probe \/ execute_scan_completed \/ execute_scan_log
    \/ execute_scan_failed

SpecDrivers == InitDrivers /\ [][NextDrivers]_vars

\* every ScanResult object that exists
AllResults == Range(result) \cup Range(scan_result)


\* --------------------------------------------------------- the batch scans
\* ScanService.batch_scan_async (service.py) and execute_batch_scan
\* (mcp_server.py): one task per target, each inside `async with semaphore`
B == batch[1]

Ips == {"a", "b"}
BatchImpls == {"service", "mcp"}
BatchTargets == UNION {[1..n -> Ips] : n \in 0..MaxTargets}

\* semaphore = asyncio.Semaphore(max_concurrent); tasks = [...]
NewBatch(impl, targets, max_concurrent) ==
    [impl |-> impl, targets |-> targets, max_concurrent |-> max_concurrent,
     semaphore |-> max_concurrent,
     task |-> [i \in 1..Len(targets) |-> "created"],
     outcome |-> [i \in 1..Len(targets) |-> "-"],
     bpc |-> "gather", scan_results |-> <<>>]

\* the targets that are inside their per-target pipeline
Inside(b) == {i \in 1..Len(b.task) : b.task[i] = "inside"}

\* mutant: entering the block does not wait for a free slot
CanAcquire_Always(b) == TRUE

\* `async with semaphore:` lets a task in only while the counter is positive
CanAcquire(b) == b.semaphore > 0

\* how one per-target scan ends: it returns; a layer raised and the
\* pipeline's own except caught it; or (scan_async only) an exception leaves
\* scan_async, raised outside its try block
ScanOutcomes(impl) ==
    IF impl = "service" THEN {"returned", "caught", "escaped"} ELSE {"returned", "caught"}

\* scan_with_semaphore enters the block (mcp: status = RUNNING)
scan_with_semaphore_enter(i) ==
    /\ B.bpc = "gather"
    /\ B.task[i] = "created"
    /\ CanAcquire(B)
    /\ batch' = <<[B EXCEPT !.task[i] = "inside", !.semaphore = @ - 1]>>
    /\ UNCHANGED <<inputs, banners, registries, probe, stream, grab, mcp, sse, now, pc, result, t0, full_ports, dpc, scan_result, hist>>

\* the scan of target i ends and the block is left, on return or exception
scan_with_semaphore_exit(i) ==
    /\ B.task[i] = "inside"
    /\ \E o \in ScanOutcomes(B.impl) :
         batch' = <<[B EXCEPT !.task[i] = "done", !.semaphore = @ + 1, !.outcome[i] = o]>>
    /\ now' = now + 1
    /\ UNCHANGED <<inputs, banners, registries, probe, stream, grab, mcp, sse, pc, result, t0, full_ports, dpc, scan_result, hist>>

\* what scan_async hands back: the ScanResult of scan_async_with_progress,
\* whose status nobody set, on the normal return and after its except alike
scan_async_result == [ScanResult("pending", 0) EXCEPT !.scan_duration = Some(0)]

\* service.py lines 256-268: an exception becomes a fresh failed ScanResult,
\* anything else is appended as it came
BatchResult(b, i, t) ==
    [target |-> b.targets[i],
     result |-> IF b.outcome[i] = "escaped"
                THEN mark_failed(ScanResult("pending", t), t, "error")
                ELSE scan_async_result]

\* mcp_server.execute_scan ends in mark_completed or mark_failed on the
\* registered ScanResult
McpBatchResult(b, i, t) ==
    [target |-> b.targets[i],
     result |-> IF b.outcome[i] = "caught"
                THEN mark_failed(ScanResult("running", 0), t, "error")
                ELSE mark_completed(ScanResult("running", 0), t)]

\* gather has every task's result; the results are collected in input order
batch_collect ==
    /\ B.bpc = "gather"
    /\ \A i \in 1..Len(B.task) : B.task[i] = "done"
    /\ batch' = <<[B EXCEPT !.bpc = "returned",
                    !.scan_results = [i \in 1..Len(B.targets) |->
                        IF B.impl = "service" THEN BatchResult(B, i, now)
                        ELSE McpBatchResult(B, i, now)]]>>
    /\ UNCHANGED <<inputs, banners, registries, probe, stream, grab, mcp, sse, now, pc, result, t0, full_ports, dpc, scan_result, hist>>

\* the single-scan pipeline and its inputs are at rest
InitPipelineRest ==
    /\ target = [given |-> FALSE, ports |-> <<>>]
    /\ layers = AllLayers
    /\ config = DefaultConfig
    /\ callback = "none"
    /\ openOnTarget = {} /\ httpOnTarget = {}
    /\ now = 0 /\ pc = "idle" /\ result = <<>> /\ t0 = 0 /\ full_ports = <<>>
    /\ dpc = "-" /\ scan_result = <<>> /\ hist = <<>>

\* everything outside the batch and the banner phase is at rest
InitRest == OthersAtRest /\ InitPipelineRest

InitBatch ==
    /\ driver = "batch"
    /\ \E impl \in BatchImpls, ts \in BatchTargets, k \in 1..MaxConcurrent :
         batch = <<NewBatch(impl, ts, k)>>
    /\ banners = <<>>
    /\ InitRest

NextBatch ==
    \/ \E i \in 1..Len(B.task) : scan_with_semaphore_enter(i)
    \/ \E i \in 1..Len(B.task) : scan_with_semaphore_exit(i)
    \/ batch_collect

SpecBatch == InitBatch /\ [][NextBatch]_vars

\* ------------------------------------- scanner.py: the banner phase's tasks
\* _grab_banners creates one task per open port and awaits them as they
\* complete; `semaphore = asyncio.Semaphore(20)` is created and never used
G == banners[1]

\* the Semaphore(20) of _grab_banners
BannerSemaphore == 20

\* tasks = [create_task(_grab_single_banner(ip, port)) for port in ports]
NewBanners(n) == [ports |-> n, in_flight |-> 0, completed |-> 0]

\* a created task runs and opens its connection (_get_banner); nothing is
\* acquired first
grab_single_banner_connect ==
    /\ G.in_flight + G.completed < G.ports
    /\ banners' = <<[G EXCEPT !.in_flight = @ + 1]>>
    /\ UNCHANGED <<inputs, batch, registries, probe, stream, grab, mcp, sse, now, pc, result, t0, full_ports, dpc, scan_result, hist>>

\* a task returns its PortInfo; as_completed yields it
grab_single_banner_return ==
    /\ G.in_flight > 0
    /\ banners' = <<[G EXCEPT !.in_flight = @ - 1, !.completed = @ + 1]>>
    /\ UNCHANGED <<inputs, batch, registries, probe, stream, grab, mcp, sse, now, pc, result, t0, full_ports, dpc, scan_result, hist>>

InitBanners ==
    /\ driver = "banners"
    /\ \E n \in 1..MaxBannerPorts : banners = <<NewBanners(n)>>
    /\ batch = <<>>
    /\ InitRest

NextBanners == grab_single_banner_connect \/ grab_single_banner_return

SpecBanners == InitBanners /\ [][NextBanners]_vars

\* ------------------------------- web_prober.py: one directory request
\* strings are sequences of characters
DigitValue ==
    ("0" :> 0) @@ ("1" :> 1) @@ ("2" :> 2) @@ ("3" :> 3) @@ ("4" :> 4) @@
    ("5" :> 5) @@ ("6" :> 6) @@ ("7" :> 7) @@ ("8" :> 8) @@ ("9" :> 9)

RECURSIVE DigitsValue(_, _)
DigitsValue(str, acc) ==
    IF str = <<>> THEN acc
    ELSE DigitsValue(Tail(str), 10 * acc + DigitValue[Head(str)])

IsDigits(str) == str # <<>> /\ \A i \in 1..Len(str) : str[i] \in DOMAIN DigitValue

\* int(str): Some(n), or None where Python raises ValueError
ParseInt(str) ==
    IF IsDigits(str) THEN Some(DigitsValue(str, 0))
    ELSE IF str # <<>> /\ Head(str) = "-" /\ IsDigits(Tail(str))
         THEN Some(0 - DigitsValue(Tail(str), 0))
         ELSE NoneV

UpperToLower ==
    ("A" :> "a") @@ ("D" :> "d") @@ ("G" :> "g") @@ ("I" :> "i") @@
    ("L" :> "l") @@ ("M" :> "m") @@ ("N" :> "n") @@ ("O" :> "o")

\* str.lower()
Lower(str) ==
    [i \in 1..Len(str) |-> IF str[i] \in DOMAIN UpperToLower THEN UpperToLower[str[i]] ELSE str[i]]

\* `keyword in str`
Contains(str, keyword) ==
    \E i \in 0..(Len(str) - Len(keyword)) : SubSeq(str, i + 1, i + Len(keyword)) = keyword

meaningful_codes == {200, 201, 301, 302, 401, 403, 500, 503}

admin_path_keywords == {
    <<"a", "d", "m", "i", "n">>, <<"m", "a", "n", "a", "g", "e">>, <<"c", "o", "n", "t", "r", "o", "l">>, <<"p", "a", "n", "e", "l">>,
    <<"d", "a", "s", "h", "b", "o", "a", "r", "d">>, <<"c", "o", "n", "s", "o", "l", "e">>, <<"b", "a", "c", "k", "e", "n", "d">>, <<"l", "o", "g", "i", "n">> }

PathHasAdminKeyword(path) == \E k \in admin_path_keywords : Contains(Lower(path), k)

\* the bodies tried: a page without any admin marker, a page with a password
\* form, and a body whose decoding (response.text) raises
Bodies == {"plain", "password form", "undecodable"}

\* _is_admin_interface: the path keywords first, then the content's markers
_is_admin_interface(content, path) ==
    PathHasAdminKeyword(path) \/ content = "password form"

\* mutant: a body of exactly 50 bytes is dropped too
_is_meaningful_response_Strict(response) ==
    /\ response.status_code \in meaningful_codes
    /\ (response.content_length # NoneV /\ response.content_length[1] # <<>>
        /\ ParseInt(response.content_length[1]) # NoneV)
       => ~(ParseInt(response.content_length[1])[1] <= 50
            \/ ParseInt(response.content_length[1])[1] > 1024 * 1024)

\* `if content_length:` is false for a missing and for an empty header; a
\* header that does not parse is let through (except ValueError: pass)
_is_meaningful_response(response) ==
    /\ response.status_code \in meaningful_codes
    /\ (response.content_length # NoneV /\ response.content_length[1] # <<>>
        /\ ParseInt(response.content_length[1]) # NoneV)
       => ~(ParseInt(response.content_length[1])[1] < 50
            \/ ParseInt(response.content_length[1])[1] > 1024 * 1024)

\* _scan_single_directory: None when the request raised or the response is
\* not meaningful, else the DirectoryInfo; is_admin keeps its default False
\* unless the status is 200 and the body decodes
_scan_single_directory(path, response) ==
    IF response = NoneV THEN NoneV
    ELSE IF ~_is_meaningful_response(response[1]) THEN NoneV
    ELSE Some([path |-> path,
               status_code |-> response[1].status_code,
               content_length |-> IF response[1].content_length = NoneV THEN NoneV
                                  ELSE ParseInt(response[1].content_length[1]),
               is_admin |-> IF response[1].status_code = 200 /\ response[1].body # "undecodable"
                            THEN _is_admin_interface(response[1].body, path)
                            ELSE FALSE])

ProbePaths == {
    <<"/", "a", "d", "m", "i", "n">>, <<"/", "A", "d", "m", "i", "n", "/">>, <<"/", "a", "p", "i">>,
    <<"/", "L", "O", "G", "I", "N">>, <<"/", "w", "p">>, <<"/", "o", "l", "d", "/", "D", "a", "s", "h", "b", "o", "a", "r", "d">> }

StatusCodes == meaningful_codes \cup {204, 404}

\* Content-Length header values: missing, empty, not a number, and numbers
\* around both limits
ContentLengths ==
    {NoneV} \cup {Some(h) : h \in {<<>>, <<"a", "b", "c">>, <<"0">>, <<"-", "5">>, <<"4", "9">>,
                                    <<"5", "0">>, <<"5", "1">>, <<"1", "0", "4", "8", "5", "7", "6">>,
                                    <<"1", "0", "4", "8", "5", "7", "7">>}}

Responses ==
    {NoneV} \cup {Some(r) : r \in [status_code : StatusCodes,
                                    content_length : ContentLengths, body : Bodies]}

P == probe[1]

\* the request is answered (or raises) and _scan_single_directory returns
scan_single_directory ==
    /\ P.ppc = "request"
    /\ probe' = <<[P EXCEPT !.ppc = "done",
                            !.dir_info = _scan_single_directory(P.path, P.response)]>>
    /\ UNCHANGED <<inputs, pipeline, batch, banners, registries, stream, grab, mcp, sse>>

InitProber ==
    /\ driver = "prober"
    /\ \E path \in ProbePaths, response \in Responses :
         probe = <<[path |-> path, response |-> response, ppc |-> "request", dir_info |-> NoneV]>>
    /\ batch = <<>> /\ banners = <<>>
    /\ RegistriesEmpty
    /\ stream = <<>> /\ grab = <<>> /\ mcp = <<>> /\ sse = <<>>
    /\ InitPipelineRest

NextProber == scan_single_directory

SpecProber == InitProber /\ [][NextProber]_vars

\* ------------------------------- service.py: ScanService.scan_stream
ST == stream[1]

\* scan_async(self, ip, ports=None, layers=None): the positional parameters
\* after self
scan_async_params == <<"ip", "ports", "layers">>

\* a call binds its positional arguments when the function has a parameter
\* for each of them; otherwise Python raises TypeError at the call
Binds(args, params) == Len(args) <= Len(params)

StreamCallers == {"scan_stream", "scan_with_progress"}

\* layers as the caller passes them: None, or a list
StreamLayers == {NoneV} \cup {Some(l) : l \in SUBSET AllLayers}

\* scan_with_progress calls scan_stream(ip, ports): layers stay None
NewStream(caller, ip, t, l, progress_callback) ==
    [caller |-> caller, ip |-> ip, ports |-> t, layers |-> l,
     progress_callback |-> progress_callback,
     callbacks |-> {}, queue |-> <<>>, yielded |-> <<>>,
     spc |-> "register", sdk |-> IF caller = "scan_with_progress" THEN "iterating" ELSE "-",
     sdk_result |-> NoneV]

\* scan_id, the queue and the three register_callback calls
stream_register_callbacks ==
    /\ ST.spc = "register"
    /\ stream' = <<[ST EXCEPT !.callbacks = {"on_start", "on_layer_complete", "on_complete"},
                             !.spc = "create_task"]>>
    /\ UNCHANGED <<inputs, pipeline, batch, banners, registries, probe, grab, mcp, sse>>

\* asyncio.create_task(self.scan_async(ip, ports, layers, scan_id)): the
\* call is evaluated first; when it does not bind, TypeError leaves the
\* generator before its loop, with nothing put on the queue
stream_create_task ==
    /\ ST.spc = "create_task"
    /\ stream' = <<[ST EXCEPT !.spc =
                      IF Binds(<<ST.ip, ST.ports, ST.layers, "scan_id">>, scan_async_params)
                      THEN "loop" ELSE "raised"]>>
    /\ UNCHANGED <<inputs, pipeline, batch, banners, registries, probe, grab, mcp, sse>>

\* scan_with_progress: `async for` re-raises what the generator raised;
\* `return result` is not reached
scan_with_progress_raises ==
    /\ ST.sdk = "iterating" /\ ST.spc = "raised"
    /\ stream' = <<[ST EXCEPT !.sdk = "raised"]>>
    /\ UNCHANGED <<inputs, pipeline, batch, banners, registries, probe, grab, mcp, sse>>

InitStream ==
    /\ driver = "stream"
    /\ \E ip \in Ips, t \in Targets, l \in StreamLayers, caller \in StreamCallers, cb \in BOOLEAN :
         /\ caller = "scan_stream" => ~cb
         /\ caller = "scan_with_progress" => l = NoneV
         /\ stream = <<NewStream(caller, ip, t, l, cb)>>
    /\ batch = <<>> /\ banners = <<>>
    /\ RegistriesEmpty
    /\ probe = <<>> /\ grab = <<>> /\ mcp = <<>> /\ sse = <<>>
    /\ InitPipelineRest

NextStream ==
    stream_register_callbacks \/ stream_create_task \/ scan_with_progress_raises

\* the event loop runs every step that is ready
SpecStream == InitStream /\ [][NextStream]_vars /\ WF_vars(NextStream)

\* ------------------------------- service.py: the status queries
\* active_scans and result_cache are dicts from scan_id to ScanResult
\* (functions; <<>> is the empty dict). The run's scan_id is the one uuid
\* scan_async_with_progress draws.
scan_id == "scan-1"

get_scan_status(id) ==
    IF id \in DOMAIN active_scans THEN Some(active_scans[id])
    ELSE IF id \in DOMAIN result_cache THEN Some(result_cache[id])
    ELSE NoneV

list_active_scans == {active_scans[id] : id \in DOMAIN active_scans}

get_scan_result(id) ==
    IF id \in DOMAIN result_cache THEN Some(result_cache[id]) ELSE NoneV

\* ------------------------------- scanner.py: the banner phase, task by task
GR == grab[1]

\* what the peer does on one connection: refuse it, greet, reset it during
\* the first read, or stay silent and then answer / ignore / break the nudge
Peers == {"refused", "greets", "resets", "silent_answers", "silent_silent", "silent_error"}

\* _get_banner against a given peer: the banner returned and the state in
\* which the writer is left. writer.close() is reached only past both
\* `return banner` / `return response`; an exception of a read, of the
\* nudge's write or of its 3 s wait_for goes to the outer except
_get_banner_on(p, peer) ==
    IF peer = "refused" THEN [banner |-> "none", writer |-> "never opened"]
    ELSE IF peer = "greets" THEN [banner |-> "other", writer |-> "open"]
    ELSE IF peer = "resets" THEN [banner |-> "none", writer |-> "open"]
    ELSE IF p \notin nudge_ports THEN [banner |-> "none", writer |-> "closed"]
    ELSE IF peer = "silent_answers" THEN [banner |-> "http", writer |-> "open"]
    ELSE IF peer = "silent_error" THEN [banner |-> "none", writer |-> "open"]
    ELSE [banner |-> "none", writer |-> "closed"]

\* the PortInfo _grab_single_banner builds from the banner it got
PortInfoOf(p, b) ==
    [port |-> p, state |-> "open",
     service |-> DictGet(_identify_service(p, b), "service", "unknown"),
     banner |-> b]

_identify_service_by_port(p) == DictGet(_identify_by_port(p), "name", "unknown")

\* the except branch's PortInfo(port=..., state="open", service=...)
MinimalPortInfo(p) ==
    [port |-> p, state |-> "open", service |-> _identify_service_by_port(p), banner |-> "none"]

\* the port lists handed to the banner phase: one or two distinct open ports
GrabLists ==
    {<<p>> : p \in Ports} \cup {l \in {<<p, q>> : p \in Ports, q \in Ports} : l[1] # l[2]}

NewGrab(ports, cb) ==
    [ports |-> ports, progress_callback |-> cb,
     task |-> [j \in 1..Len(ports) |-> "pending"],
     value |-> [j \in 1..Len(ports) |-> MinimalPortInfo(ports[j])],
     writer |-> [j \in 1..Len(ports) |-> "never opened"],
     order |-> <<>>, completed |-> 0, port_infos |-> <<>>, gpc |-> "loop"]

\* task j, _grab_single_banner(ip, ports[j]), returns its PortInfo
grab_task_returns(j) ==
    /\ GR.task[j] = "pending"
    /\ \E peer \in Peers :
         grab' = <<[GR EXCEPT !.task[j] = "returned",
                              !.value[j] = PortInfoOf(GR.ports[j], _get_banner_on(GR.ports[j], peer).banner),
                              !.writer[j] = _get_banner_on(GR.ports[j], peer).writer,
                              !.order = Append(@, j)]>>
    /\ UNCHANGED <<inputs, pipeline, batch, banners, registries, probe, stream, mcp, sse>>

\* task j ends with an exception
grab_task_raises(j) ==
    /\ GR.task[j] = "pending"
    /\ grab' = <<[GR EXCEPT !.task[j] = "raised", !.order = Append(@, j)]>>
    /\ UNCHANGED <<inputs, pipeline, batch, banners, registries, probe, stream, mcp, sse>>

\* the callback calls that can raise: none without a callback
CallbackOutcomes == IF GR.progress_callback THEN {"ok", "raises"} ELSE {"ok"}

\* one iteration of `for i, task in enumerate(asyncio.as_completed(tasks))`:
\* i counts the iterations, task is the next one to have completed. The
\* try block holds the append and the callback; the except branch appends
\* PortInfo(port=ports[i]) and calls the callback outside any try
grab_iteration ==
    /\ GR.gpc = "loop"
    /\ GR.completed < Len(GR.order)
    /\ LET i == GR.completed + 1
           j == GR.order[i]
       IN \E c1 \in CallbackOutcomes, c2 \in CallbackOutcomes :
            grab' = <<[GR EXCEPT
               !.port_infos =
                   IF GR.task[j] = "returned"
                   THEN (IF c1 = "ok" THEN Append(@, GR.value[j])
                         ELSE Append(Append(@, GR.value[j]), MinimalPortInfo(GR.ports[i])))
                   ELSE Append(@, MinimalPortInfo(GR.ports[i])),
               !.completed = @ + 1,
               !.gpc = IF (GR.task[j] = "raised" \/ c1 = "raises") /\ c2 = "raises"
                       THEN "raised" ELSE "loop"]>>
    /\ UNCHANGED <<inputs, pipeline, batch, banners, registries, probe, stream, mcp, sse>>

\* return port_infos
grab_return ==
    /\ GR.gpc = "loop"
    /\ GR.completed = Len(GR.ports)
    /\ grab' = <<[GR EXCEPT !.gpc = "returned"]>>
    /\ UNCHANGED <<inputs, pipeline, batch, banners, registries, probe, stream, mcp, sse>>

InitGrab ==
    /\ driver = "grab"
    /\ \E ports \in GrabLists, cb \in BOOLEAN : grab = <<NewGrab(ports, cb)>>
    /\ batch = <<>> /\ banners = <<>>
    /\ RegistriesEmpty
    /\ probe = <<>> /\ stream = <<>> /\ mcp = <<>> /\ sse = <<>>
    /\ InitPipelineRest

NextGrab ==
    \/ \E j \in 1..Len(GR.ports) : grab_task_returns(j) \/ grab_task_raises(j)
    \/ grab_iteration
    \/ grab_return

SpecGrab == InitGrab /\ [][NextGrab]_vars

\* ------------------------------- mcp_server.py: two scans, one set of components
\* scanner, http_detector and web_prober are module globals; execute_scan
\* stores its config in all three, so they hold one config between them
M == mcp[1]

\* the configs a scan_target request can carry (admin_scan_enabled on or off)
McpConfigs == {[DefaultConfig EXCEPT !.admin_scan_enabled = b] : b \in BOOLEAN}

McpKinds == {"scan_target", "batch_scan"}

\* what a scan finds: nothing, open ports only, or open ports with HTTP
McpFindings == {[open |-> FALSE, http |-> FALSE], [open |-> TRUE, http |-> FALSE],
                [open |-> TRUE, http |-> TRUE]}

\* handle_scan_target passes ScanConfig(**config_dict), execute_batch_scan
\* passes ScanConfig(); the ScanResult starts with empty lists
McpScans ==
    {sc \in [kind : McpKinds, config : McpConfigs, scan_layers : SUBSET AllLayers,
             found : McpFindings, mpc : {"created"}, ran : {<<>>},
             open_ports : {FALSE}, http_services : {FALSE}] :
        sc.kind = "batch_scan" => sc.config = DefaultConfig}

LayerRun(name, cfg) == [layer |-> name, config |-> cfg]

\* execute_scan up to the first await: the three assignments, then the
\* first layer starts and builds the helper's command line from
\* scanner.config; open_ports is what the layer adds when it returns
mcp_execute_scan_begin(i) ==
    /\ M.scans[i].mpc = "created"
    /\ mcp' = <<[M EXCEPT !.config = M.scans[i].config,
                          !.scans[i].mpc = "http_detection",
                          !.scans[i].open_ports =
                              "port_scan" \in M.scans[i].scan_layers /\ M.scans[i].found.open,
                          !.scans[i].ran =
                              IF "port_scan" \in M.scans[i].scan_layers
                              THEN Append(@, LayerRun("port_scan", M.scans[i].config))
                              ELSE @]>>
    /\ UNCHANGED <<inputs, pipeline, batch, banners, registries, probe, stream, grab, sse>>

\* `"http_detection" in scan_layers and scan_result.open_ports`: the second
\* layer runs on http_detector, under the config it holds then
mcp_http_detection(i) ==
    /\ M.scans[i].mpc = "http_detection"
    /\ LET runs == "http_detection" \in M.scans[i].scan_layers /\ M.scans[i].open_ports
       IN mcp' = <<[M EXCEPT !.scans[i].mpc = "web_probe",
                             !.scans[i].http_services = runs /\ M.scans[i].found.http,
                             !.scans[i].ran =
                                 IF runs THEN Append(@, LayerRun("http_detection", M.config))
                                 ELSE @]>>
    /\ UNCHANGED <<inputs, pipeline, batch, banners, registries, probe, stream, grab, sse>>

\* `"web_probe" in scan_layers and scan_result.http_services`: the third
\* layer runs on web_prober; probe_web_services reads
\* self.config.admin_scan_enabled when it is called
mcp_web_probe(i) ==
    /\ M.scans[i].mpc = "web_probe"
    /\ mcp' = <<[M EXCEPT !.scans[i].mpc = "done",
                          !.scans[i].ran =
                              IF "web_probe" \in M.scans[i].scan_layers /\ M.scans[i].http_services
                              THEN Append(@, LayerRun("web_probe", M.config))
                              ELSE @]>>
    /\ UNCHANGED <<inputs, pipeline, batch, banners, registries, probe, stream, grab, sse>>

\* a scan_target request, and a second request of either kind
InitMcp ==
    /\ driver = "mcp_server"
    /\ \E s1 \in McpScans, s2 \in McpScans :
         /\ s1.kind = "scan_target"
         /\ mcp = <<[config |-> DefaultConfig, scans |-> <<s1, s2>>]>>
    /\ batch = <<>> /\ banners = <<>>
    /\ RegistriesEmpty
    /\ probe = <<>> /\ stream = <<>> /\ grab = <<>> /\ sse = <<>>
    /\ InitPipelineRest

NextMcp ==
    \E i \in 1..2 : mcp_execute_scan_begin(i) \/ mcp_http_detection(i) \/ mcp_web_probe(i)

SpecMcp == InitMcp /\ [][NextMcp]_vars

\* ------------------------------- http_sse_server.py: POST /scan and its stream
E == sse[1]

Event(type, status) == [type |-> type, status |-> status]

\* what `await service.scan_async(...)` gives execute_scan_task: a result
\* with its scan_duration, or an exception
ScanAsyncOutcomes == {[raises |-> FALSE, scan_duration |-> Some(1)],
                      [raises |-> TRUE, scan_duration |-> NoneV]}

\* mutant: a running scan already counts as over
StreamIsOver_Running(status) == status \in {"running", "completed", "failed"}

\* `if current_status in [ScanStatus.COMPLETED, ScanStatus.FAILED]`
StreamIsOver(status) == status \in {"completed", "failed"}

\* POST /scan: the ScanResult is registered as PENDING in active_scans and
\* the background task is queued
start_scan ==
    /\ E.tpc = "request"
    /\ sse' = <<[E EXCEPT !.tpc = "queued", !.status = Some("pending"),
                          !.statuses = <<"pending">>]>>
    /\ UNCHANGED <<inputs, pipeline, batch, banners, registries, probe, stream, grab, mcp>>

\* execute_scan_task up to its await: status = RUNNING
execute_scan_task_begin ==
    /\ E.tpc = "queued"
    /\ sse' = <<[E EXCEPT !.tpc = "scanning", !.status = Some("running"),
                          !.statuses = Append(@, "running")]>>
    /\ UNCHANGED <<inputs, pipeline, batch, banners, registries, probe, stream, grab, mcp>>

\* execute_scan_task after the await, without a further await: the copy,
\* status = COMPLETED and the log line, or the except branch (FAILED)
execute_scan_task_end ==
    /\ E.tpc = "scanning"
    /\ \E o \in ScanAsyncOutcomes :
         LET final == IF o.raises \/ FormatRaises(o.scan_duration) THEN "failed" ELSE "completed"
         IN sse' = <<[E EXCEPT !.tpc = "done", !.status = Some(final),
                               !.statuses = Append(@, final)]>>
    /\ UNCHANGED <<inputs, pipeline, batch, banners, registries, probe, stream, grab, mcp>>

\* GET /scan/{scan_id}/stream of a registered scan: the generator starts
\* and yields 'start'
event_generator_start ==
    /\ E.gpc = "unconnected"
    /\ E.status # NoneV
    /\ sse' = <<[E EXCEPT !.gpc = "poll", !.last_status = NoneV,
                          !.events = Append(@, Event("start", "-"))]>>
    /\ UNCHANGED <<inputs, pipeline, batch, banners, registries, probe, stream, grab, mcp>>

\* the head of a loop iteration: read the status; when it differs from
\* last_status, yield 'status_update' and remember it
event_generator_poll ==
    /\ E.gpc = "poll"
    /\ sse' = <<[E EXCEPT !.gpc = "check", !.current_status = E.status[1],
                          !.last_status = E.status,
                          !.events = IF E.status # E.last_status
                                     THEN Append(@, Event("status_update", E.status[1]))
                                     ELSE @]>>
    /\ UNCHANGED <<inputs, pipeline, batch, banners, registries, probe, stream, grab, mcp>>

\* the tail of the iteration: yield 'complete' and break when the status
\* read is final, else sleep one second and loop
event_generator_check ==
    /\ E.gpc = "check"
    /\ sse' = <<IF StreamIsOver(E.current_status)
                THEN [E EXCEPT !.gpc = "ended",
                               !.events = Append(@, Event("complete", E.current_status))]
                ELSE [E EXCEPT !.gpc = "poll"]>>
    /\ UNCHANGED <<inputs, pipeline, batch, banners, registries, probe, stream, grab, mcp>>

InitSse ==
    /\ driver = "sse_stream"
    /\ \E ip \in Ips, t \in DriverTargets :
         sse = <<[ip |-> ip, ports |-> t, tpc |-> "request", status |-> NoneV, statuses |-> <<>>,
                  gpc |-> "unconnected", last_status |-> NoneV, current_status |-> "-",
                  events |-> <<>>]>>
    /\ batch = <<>> /\ banners = <<>>
    /\ RegistriesEmpty
    /\ probe = <<>> /\ stream = <<>> /\ grab = <<>> /\ mcp = <<>>
    /\ InitPipelineRest

NextSse ==
    \/ start_scan \/ execute_scan_task_begin \/ execute_scan_task_end
    \/ event_generator_start \/ event_generator_poll \/ event_generator_check

\* the event loop runs the background task and wakes the generator from
\* its sleep; whether and when a client sends either request is left open
SpecSse ==
    /\ InitSse /\ [][NextSse]_vars
    /\ WF_vars(execute_scan_task_begin) /\ WF_vars(execute_scan_task_end)
    /\ WF_vars(event_generator_poll) /\ WF_vars(event_generator_check)

\* ------------------------------------------- the pipeline without a callback
\* the three lists scan_async_with_progress returns when progress_callback
\* is None and no layer raises, for one choice of what the environment does:
\* the helper's outcome and the banner order of the first sweep (h1, f1) and
\* of the escalation sweep (h2, f2), and the services with a kept directory
scan_async_lists(h1, f1, h2, f2, found) ==
    LET first == IF "port_scan" \in layers THEN scan_target(target, h1, f1) ELSE <<>>
        escalates == "port_scan" \in layers /\ NoPortsGiven(target) /\ BelowThreshold(first)
        open_ports == IF escalates THEN scan_target(full_scan_target, h2, f2) ELSE first
        http_services == IF "http_detection" \in layers /\ open_ports # <<>>
                         THEN detect_http_services(open_ports) ELSE <<>>
        admin_directories == IF "web_probe" \in layers /\ http_services # <<>>
                             THEN probe_web_services(config, http_services,
                                                     found \cap PortsOf(http_services))
                             ELSE <<>>
    IN  <<open_ports, http_services, admin_directories>>

\* some run without a callback, on this target, config and environment,
\* returns the lists of r
ReturnedWithoutCallback(r) ==
    \E h1 \in HelperOutcomes, h2 \in HelperOutcomes :
      \E f1 \in BannerOrders(target, h1), f2 \in BannerOrders(full_scan_target, h2) :
        \E found \in SUBSET httpOnTarget :
          scan_async_lists(h1, f1, h2, f2, found)
            = <<r.open_ports, r.http_services, r.admin_directories>>

\* ------------------------------------------------------ history predicates
SweepIdx == {i \in 1..Len(hist) : hist[i].ev = "sweep"}
FullIdx == {i \in SweepIdx : hist[i].full}
HttpIdx == {i \in 1..Len(hist) : hist[i].ev = "http_detection"}
Raised == \E i \in 1..Len(hist) : hist[i].ev \in {"raise", "callback_raise"}
\* the first (preset) sweep of a run without explicit ports has returned
PresetRan == Len(hist) >= 1 /\ hist[1].ev = "sweep" /\ ~hist[1].full
PresetCount == Len(hist[1].ret)
WebIdx == {i \in 1..Len(hist) : hist[i].ev = "web_probe"}
Max(S) == CHOOSE x \in S : \A y \in S : y <= x
Terminal == {"completed", "failed"}
Returned == driver = "service" /\ pc = "done"

\* ------------------------------------------------------------------ claims

\* C1: in a returned run of scan_async_with_progress that requested port_scan
\* without explicit ports and whose preset sweep found fewer open ports than
\* smart_scan_threshold, a sweep over the full range was run before any
\* Layer-2 call and the final open_ports is the list that sweep returned.
C1_FullSweepReplaces ==
    (Returned /\ ~target.given /\ "port_scan" \in layers /\ PresetRan
       /\ PresetCount < config.smart_scan_threshold)
    => \E i \in FullIdx :
         /\ hist[i].cand = full_range
         /\ \A j \in HttpIdx : i < j
         /\ R.open_ports = hist[i].ret

\* C2: in a returned run without explicit ports in which nothing raised and
\* the preset sweep found at least smart_scan_threshold open ports, HTTP
\* detection ran; a full sweep followed it iff no port answered HTTP.
C2_WebCheckThenSweep ==
    (Returned /\ ~Raised /\ ~target.given /\ "port_scan" \in layers
       /\ "http_detection" \in layers /\ PresetRan
       /\ PresetCount >= config.smart_scan_threshold)
    => /\ HttpIdx # {}
       /\ R.http_services = <<>> => \E i \in FullIdx : \E j \in HttpIdx : j < i
       /\ R.http_services # <<>> => FullIdx = {}

\* C3: with smart_scan_enabled = false no full-range sweep is ever started.
C3_DisabledNeverEscalates ==
    ~config.smart_scan_enabled => FullIdx = {}

C5_EscalationSubsumes ==
    (Returned /\ callback = "none" /\ config.smart_scan_enabled /\ ~target.given
       /\ "port_scan" \in layers
       /\ openOnTarget \subseteq (rustscan_ports \cup preset_ports)
       /\ PresetRan /\ PresetCount < config.smart_scan_threshold)
    => PortsOf(R.open_ports) = openOnTarget

\* C6: when something raised inside the pipeline, the returned result is
\* failed and carries an error message.
C6_RaiseMarksFailed ==
    (Returned /\ Raised) => R.status = "failed" /\ R.error_message # NoneV

\* C7: every returned result is terminal; a run in which nothing raised is
\* completed, with empty findings when the target has no open port.
C7_ReturnedIsTerminal ==
    Returned =>
        /\ R.status \in Terminal
        /\ ~Raised => R.status = "completed"
        /\ (~Raised /\ openOnTarget = {}) =>
              R.open_ports = <<>> /\ R.http_services = <<>> /\ R.admin_directories = <<>>

\* C8: a ScanResult whose status is completed or failed has end_time and
\* scan_duration set, and scan_duration = end_time - start_time.
C8_TerminalTimes ==
    \A r \in AllResults :
        r.status \in Terminal =>
            /\ r.end_time # NoneV
            /\ r.scan_duration # NoneV
            /\ r.scan_duration[1] = r.end_time[1] - r.start_time

\* C9: on every driver, each step leaves the status of a ScanResult alone or
\* moves it pending -> running or running -> completed | failed; a terminal
\* status never changes.
Forward(a, b) ==
    \/ a = b
    \/ a = "pending" /\ b = "running"
    \/ a = "running" /\ b \in Terminal

StatusStep ==
    /\ scan_result # <<>> => scan_result' # <<>> /\ Forward(SR.status, SR'.status)
    /\ result # <<>> => result' # <<>> /\ Forward(R.status, R'.status)

C9_StatusOnlyForward == [][StatusStep]_vars

\* C9 witness: a driver has finished its task and the registered result is
\* completed
C9_Witness ==
    /\ dpc = "done" /\ scan_result # <<>> /\ SR.status = "completed"
    /\ SR.open_ports # <<>>

\* C10: in every ScanResult, every entry of open_ports has state open, no two
\* entries share a port, and the list is ascending by port.
C10_OpenPortsSortedUnique ==
    \A r \in AllResults :
        /\ \A i \in 1..Len(r.open_ports) : r.open_ports[i].state = "open"
        /\ IsUniqueByPort(r.open_ports)
        /\ IsSortedByPort(r.open_ports)

\* C11: in every ScanResult, at every moment and also after an escalation
\* to the full sweep, the port of every HTTPInfo of http_services is the
\* port of some entry of open_ports.
C11_HttpPortsAreOpenPorts ==
    \A r \in AllResults : PortsOf(r.http_services) \subseteq PortsOf(r.open_ports)

\* C11 witness: a returned run that escalated and reports an HTTP service
C11_Witness ==
    Returned /\ FullIdx # {} /\ R.http_services # <<>>

\* C12: a sweep is made only when port_scan is requested; HTTP detection is
\* invoked only when http_detection is requested and the open_ports handed
\* to it is non-empty; the directory prober is invoked only when web_probe
\* is requested and the http_services handed to it is non-empty.
C12_LayerGating ==
    \A i \in 1..Len(hist) :
        /\ hist[i].ev = "sweep" => "port_scan" \in layers
        /\ hist[i].ev = "http_detection" =>
              "http_detection" \in layers /\ hist[i].ret # <<>>
        /\ hist[i].ev = "web_probe" =>
              "web_probe" \in layers /\ hist[i].ret # <<>>

\* C12 witness: a finished driver run in which all three layers were invoked
C12_Witness ==
    dpc = "done" /\ SweepIdx # {} /\ HttpIdx # {} /\ WebIdx # {}

C14_HelperFailureFallsBack ==
    \A i \in SweepIdx :
        hist[i].helper \in {"nonzero", "unparseable"} =>
            PortsOf(hist[i].ret) = Range(SocketCandidates(
                IF hist[i].full THEN full_scan_target ELSE target)) \cap openOnTarget

\* C15: a sweep in which the helper binary is absent reports as open exactly
\* the candidate ports on which a connect succeeds.
C15_AbsentHelperConnectScan ==
    \A i \in SweepIdx :
        hist[i].helper = "absent" =>
            PortsOf(hist[i].ret) = hist[i].cand \cap openOnTarget

\* C15 witness: a returned run whose sweep had no helper and found a port
C15_Witness ==
    /\ Returned
    /\ \E i \in SweepIdx : hist[i].helper = "absent" /\ hist[i].ret # <<>>

\* C16: without explicit ports, every first-layer sweep covers the preset
\* range together with the extra preset ports, whether the helper or the
\* connect scan does it.
C16_SameCandidateSet ==
    \A i \in SweepIdx :
        (~hist[i].full /\ ~Truthy(target)) =>
            hist[i].cand = rustscan_ports \cup preset_ports

\* C17: during a batch scan, of the service or of the MCP server, the number
\* of targets inside their per-target pipeline never exceeds max_concurrent
\* (and the semaphore counts the free slots).
C17_BatchConcurrencyBound ==
    batch # <<>> =>
        /\ Cardinality(Inside(B)) <= B.max_concurrent
        /\ B.semaphore = B.max_concurrent - Cardinality(Inside(B))

\* C17 witness: the limit is reached while another target waits
C17_Witness ==
    /\ batch # <<>>
    /\ Cardinality(Inside(B)) = B.max_concurrent
    /\ \E i \in 1..Len(B.task) : B.task[i] = "created"

\* C18: batch_scan_async returns one result per input target, in input
\* order, result i carrying target i, every target having been scanned; the
\* result of a target whose scan raised is failed and has an error message.
C18_BatchOneResultPerTarget ==
    (batch # <<>> /\ B.impl = "service" /\ B.bpc = "returned") =>
        /\ Len(B.scan_results) = Len(B.targets)
        /\ \A i \in 1..Len(B.targets) :
              /\ B.scan_results[i].target = B.targets[i]
              /\ B.outcome[i] # "-"
              /\ B.outcome[i] \in {"caught", "escaped"} =>
                    /\ B.scan_results[i].result.status = "failed"
                    /\ B.scan_results[i].result.error_message # NoneV

\* C19: during the banner phase of one target at most 20 banner-grab
\* connections are in flight.
C19_BannerConcurrencyBound ==
    banners # <<>> => G.in_flight <= BannerSemaphore

\* C20: a returned run whose progress callback raised, and in which no layer
\* raised, holds the open_ports, http_services and admin_directories that
\* some run without a callback returns for the same target, configuration
\* and environment.
C20_CallbackFireAndForget ==
    (Returned /\ callback = "given" /\ \A i \in 1..Len(hist) : hist[i].ev # "raise")
    => ReturnedWithoutCallback(R)

\* C21: the service of every reported open port is the label that
\* _identify_service derives for it: the banner's label when a banner rule
\* matches, else the port table's label, and "unknown" only when neither
\* gives one.
C21_ServiceLabel ==
    \A r \in AllResults : \A i \in 1..Len(r.open_ports) :
        r.open_ports[i].service
          = _identify_service(r.open_ports[i].port, r.open_ports[i].banner).name

\* C22: every open port handed to HTTP detection that is in web_ports is
\* among the HTTP candidates, whatever its banner and service label.
C22_WebPortsAreCandidates ==
    \A j \in HttpIdx : \A i \in 1..Len(hist[j].ret) :
        hist[j].ret[i].port \in web_ports =>
            hist[j].ret[i].port \in PortsOf(_identify_http_candidates(hist[j].ret))

\* C23: a kept directory response, of any kept status and any body, whose
\* path contains one of the admin keywords (case-insensitively) has
\* is_admin = true.
C23_AdminPathMonotone ==
    (probe # <<>> /\ P.ppc = "done" /\ P.dir_info # NoneV /\ PathHasAdminKeyword(P.path))
    => P.dir_info[1].is_admin

\* C24: an answered directory request is kept iff its status is one of the
\* meaningful codes and, when Content-Length is present and parses as an
\* integer, the length lies in 50..1048576.
C24_KeptIffMeaningful ==
    (probe # <<>> /\ P.ppc = "done" /\ P.response # NoneV) =>
        (P.dir_info # NoneV <=>
            /\ P.response[1].status_code \in {200, 201, 301, 302, 401, 403, 500, 503}
            /\ \A h \in Range(P.response[1].content_length) : \A n \in Range(ParseInt(h)) :
                  50 <= n /\ n <= 1048576)

\* C24 witness: a 200 response of exactly 50 bytes has been kept
C24_Witness ==
    /\ probe # <<>> /\ P.ppc = "done" /\ P.dir_info # NoneV
    /\ P.response[1].status_code = 200
    /\ P.dir_info[1].content_length = Some(50)

\* C25: the progress stream of a scan eventually yields a final event with
\* progress_percent = 100 and ends, and scan_with_progress returns the
\* scan's ScanResult.
C25_StreamFinishes ==
    <>(/\ stream # <<>>
       /\ ST.spc = "ended"
       /\ ST.yielded # <<>> /\ ST.yielded[Len(ST.yielded)].progress_percent = 100
       /\ ST.caller = "scan_with_progress" => (ST.sdk = "returned" /\ ST.sdk_result # NoneV))

\* C26: once a scan through ScanService has returned, get_scan_result and
\* get_scan_status give back its ScanResult for its scan_id; while it is
\* running, list_active_scans lists it.
C26_RegistriesTrackScans ==
    /\ Returned => (get_scan_result(scan_id) = Some(R) /\ get_scan_status(scan_id) = Some(R))
    /\ (driver = "service" /\ result # <<>> /\ pc # "done") => R \in list_active_scans

\* C27: whatever the completion order, the banner phase returns one
\* PortInfo per input port, with the same set of port numbers, and a port
\* whose grab failed is reported as the minimal PortInfo of that port.
C27_EveryPortOnce ==
    (grab # <<>> /\ GR.gpc = "returned") =>
        /\ Len(GR.port_infos) = Len(GR.ports)
        /\ PortsOf(GR.port_infos) = Range(GR.ports)
        /\ \A j \in 1..Len(GR.ports) :
              GR.task[j] = "raised" =>
                  \E k \in 1..Len(GR.port_infos) :
                      GR.port_infos[k] = MinimalPortInfo(GR.ports[j])

\* C28: when _get_banner has returned, the connection it opened is closed.
C28_ConnectionClosed ==
    grab # <<>> =>
        \A j \in 1..Len(GR.ports) : GR.task[j] = "returned" => GR.writer[j] # "open"

\* C29: every layer of a scan started by scan_target with config C runs
\* under C, also while another scan with a different config is running.
C29_LayersUnderOwnConfig ==
    mcp # <<>> =>
        \A i \in 1..2 : M.scans[i].kind = "scan_target" =>
            \A k \in 1..Len(M.scans[i].ran) : M.scans[i].ran[k].config = M.scans[i].config

\* C30: the SSE stream of a registered scan emits 'start' first, then one
\* 'status_update' per status it observes, and, once the scan is completed
\* or failed, exactly one 'complete' as its last event and ends; it ends
\* only after the scan is terminal, and a registered scan eventually becomes
\* terminal.
EventTypes(ev) == [k \in 1..Len(ev) |-> ev[k].type]
UpdatesOf(ev) == SelectSeq(ev, LAMBDA e : e.type = "status_update")

C30_StreamShape ==
    sse # <<>> =>
        LET ev == E.events
            up == UpdatesOf(ev)
            n == Len(ev)
        IN /\ E.gpc # "unconnected" =>
                /\ n >= 1 /\ ev[1].type = "start"
                /\ \A k \in 2..n : ev[k].type # "start"
           \* each update reports a status the scan had, in the order it had
           \* them, none twice
           /\ \A k \in 1..Len(up) :
                \E a \in 1..Len(E.statuses) :
                    /\ E.statuses[a] = up[k].status
                    /\ \A l \in 1..(k - 1) :
                         \E b \in 1..(a - 1) : E.statuses[b] = up[l].status
           \* 'complete' exactly when the stream has ended: once, last, with
           \* the scan's terminal status, right after that status' update
           /\ \A k \in 1..n : ev[k].type = "complete" => (k = n /\ E.gpc = "ended")
           /\ E.gpc = "ended" =>
                /\ n >= 3 /\ ev[n].type = "complete"
                /\ ev[n - 1] = Event("status_update", ev[n].status)
                /\ E.status = Some(ev[n].status)
                /\ ev[n].status \in Terminal

C30_SseStream ==
    /\ []C30_StreamShape
    /\ (sse # <<>> /\ E.status # NoneV) ~> (sse # <<>> /\ E.status \in {Some(st) : st \in Terminal})
    /\ (sse # <<>> /\ E.gpc # "unconnected") ~> (sse # <<>> /\ E.gpc = "ended")

\* C30 witness: a stream that saw pending, running and completed has ended
C30_Witness ==
    /\ sse # <<>> /\ E.gpc = "ended"
    /\ EventTypes(E.events) = <<"start", "status_update", "status_update",
                                "status_update", "complete">>
    /\ E.events[5].status = "completed"

====
